---- MODULE Spec2Model ----
(***************************************************************************)
(* Model of app/util/custom-gas.js: the gas-fee conversions, the wait-time *)
(* formatter parseWaitTime and the remote estimate fetcher                 *)
(* fetchBasicGasEstimates.                                                 *)
(*                                                                         *)
(* The synchronous functions are operators; one action applies each of     *)
(* them to an input drawn in Init.  fetchBasicGasEstimates is a process    *)
(* per invocation, one action per step of its promise chain.               *)
(***************************************************************************)
EXTENDS Integers, Sequences, FiniteSets, TLC

(***************************************************************************)
(* Bounds of the model.                                                    *)
(***************************************************************************)
\* A wait time is a multiple of 1/Res minute (min = k / Res).  For such a
\* min, min * 100 is never half an odd integer, so no input lies within
\* floating-point error of a point where Math.floor, Math.round or Math.ceil
\* of the code changes value: the exact arithmetic below agrees with the
\* doubles of the code.
Res == 300
\* Largest number of whole weeks of a wait time.
MaxWeeks == 2
\* Estimates are m * 10^p with 0 <= m <= MaxMant and 0 <= p <= MaxPow10.
MaxMant == 12
MaxPow10 == 12
\* Longest string handed to convertApiValueToGWEI.
MaxLen == 3
\* Number of concurrent invocations of fetchBasicGasEstimates.
NumCalls == 2

VARIABLES
    call,       \* the function this run applies
    done,       \* a synchronous function has returned
    estimate,   \* getWeiGasFee: estimate, a Number holding an integer (decimal digits)
    gasLimit,   \* getWeiGasFee: gasLimit argument (decimal digits, << >> when omitted)
    bnStrict,   \* whether the installed BN rejects non-digit characters
    gasFee,     \* getWeiGasFee: completion, [ok, val]
    min,        \* parseWaitTime: min, in units of 1/Res minute
    units,      \* parseWaitTime: <<strHour, strMin, strSec>>
    parsed,     \* parseWaitTime: returned string
    val,        \* convertApiValueToGWEI: val, a sequence of characters
    gwei,       \* convertApiValueToGWEI: returned string
    pc,         \* fetchBasicGasEstimates: position of each invocation
    response,   \* fetchBasicGasEstimates: what the network answered each invocation
    result,     \* fetchBasicGasEstimates: settlement of each invocation's promise
    requests,   \* fetchBasicGasEstimates: GET requests issued by each invocation
    console     \* console.log output, in order

feeVars == <<estimate, gasLimit, bnStrict, gasFee>>
waitVars == <<min, units, parsed>>
gweiVars == <<val, gwei>>
fetchVars == <<pc, response, result, requests, console>>
vars == <<call, done, feeVars, waitVars, gweiVars, fetchVars>>

(***************************************************************************)
(* Math.floor, Math.round and Math.ceil of the rational p / q (p >= 0,     *)
(* q > 0).  Math.round rounds halves up.                                   *)
(***************************************************************************)
MathFloor(p, q) == p \div q

MathRound(p, q) == (2 * p + q) \div (2 * q)

MathCeil_Floor(p, q) == p \div q

MathCeil(p, q) == (p + q - 1) \div q

\* x % n of the code, for x in units of 1/Res and an integer n.
FMod(x, n) == x % (n * Res)

(***************************************************************************)
(* parseWaitTime, one operator per block of the function.  s holds the     *)
(* function's locals: parsed, the four Rendered flags, min and tempMin.    *)
(***************************************************************************)
WaitLocals(m) ==
    [parsed |-> "", weekRendered |-> FALSE, dayRendered |-> FALSE,
     hourRendered |-> FALSE, minRendered |-> FALSE, min |-> m, tempMin |-> 0]

\* parsed += ' ' when parsed is not empty
Spaced(p) == IF p # "" THEN p \o " " ELSE p

StepWeek(s) ==
    LET weeks == MathFloor(s.min, 10080 * Res)
        s1 == IF weeks # 0
              THEN [s EXCEPT !.parsed = s.parsed \o ToString(weeks) \o "week",
                             !.weekRendered = TRUE]
              ELSE s
    IN [s1 EXCEPT !.tempMin = FMod(s.min, 10080)]

StepDay_Gated(s) ==
    LET days == MathFloor(s.tempMin, 1440 * Res)
        s1 == IF ~s.weekRendered /\ days # 0
              THEN [s EXCEPT !.parsed = Spaced(s.parsed) \o ToString(days) \o "day",
                             !.dayRendered = TRUE,
                             !.min = s.tempMin]
              ELSE s
    IN [s1 EXCEPT !.tempMin = FMod(s1.min, 1440)]

StepDay_OfMin(s) ==
    LET days == MathFloor(s.min, 1440 * Res)
        s1 == IF days # 0
              THEN [s EXCEPT !.parsed = Spaced(s.parsed) \o ToString(days) \o "day",
                             !.dayRendered = TRUE,
                             !.min = s.tempMin]
              ELSE s
    IN [s1 EXCEPT !.tempMin = FMod(s1.min, 1440)]

StepDay(s) ==
    LET days == MathFloor(s.tempMin, 1440 * Res)
        s1 == IF days # 0
              THEN [s EXCEPT !.parsed = Spaced(s.parsed) \o ToString(days) \o "day",
                             !.dayRendered = TRUE,
                             !.min = s.tempMin]
              ELSE s
    IN [s1 EXCEPT !.tempMin = FMod(s1.min, 1440)]

StepHour_DayGated(s, strHour) ==
    LET hours == MathFloor(s.tempMin, 60 * Res)
        s1 == IF ~s.weekRendered /\ ~s.dayRendered /\ hours # 0
              THEN [s EXCEPT !.parsed = Spaced(s.parsed) \o ToString(hours) \o strHour,
                             !.hourRendered = TRUE,
                             !.min = s.tempMin]
              ELSE s
    IN [s1 EXCEPT !.tempMin = FMod(s1.min, 60)]

StepHour(s, strHour) ==
    LET hours == MathFloor(s.tempMin, 60 * Res)
        s1 == IF ~s.weekRendered /\ hours # 0
              THEN [s EXCEPT !.parsed = Spaced(s.parsed) \o ToString(hours) \o strHour,
                             !.hourRendered = TRUE,
                             !.min = s.tempMin]
              ELSE s
    IN [s1 EXCEPT !.tempMin = FMod(s1.min, 60)]

StepMin_Ungated(s, strMin) ==
    LET minutes == MathFloor(s.tempMin, Res)
        s1 == IF ~s.weekRendered /\ minutes >= 1
              THEN [s EXCEPT !.parsed = Spaced(s.parsed) \o ToString(minutes) \o strMin,
                             !.minRendered = TRUE,
                             !.min = s.tempMin]
              ELSE s
    IN [s1 EXCEPT !.min = FMod(s1.min, 1)]

StepMin(s, strMin) ==
    LET minutes == MathFloor(s.tempMin, Res)
        s1 == IF ~s.weekRendered /\ ~s.dayRendered /\ minutes >= 1
              THEN [s EXCEPT !.parsed = Spaced(s.parsed) \o ToString(minutes) \o strMin,
                             !.minRendered = TRUE,
                             !.min = s.tempMin]
              ELSE s
    IN [s1 EXCEPT !.min = FMod(s1.min, 1)]

\* seconds = (Math.round(min * 100) * 3) / 5 is the rational secNum / 5.
StepSec(s, strSec) ==
    LET secNum == MathRound(s.min * 100, Res) * 3
    IN IF /\ ~s.weekRendered /\ ~s.dayRendered /\ ~s.hourRendered /\ ~s.minRendered
          /\ secNum > 5
       THEN [s EXCEPT !.parsed = Spaced(s.parsed) \o ToString(MathCeil(secNum, 5)) \o strSec]
       ELSE s

ParseWaitTime(m, strHour, strMin, strSec) ==
    StepSec(StepMin(StepHour(StepDay(StepWeek(WaitLocals(m))), strHour), strMin), strSec).parsed

(***************************************************************************)
(* Inputs of parseWaitTime.                                                *)
(***************************************************************************)
Samples(radix) == {0, 1, radix \div 2, radix - 1}

Minutes(w, d, h, m, f) == (((w * 7 + d) * 24 + h) * 60 + m) * Res + f

WaitInputs ==
    {Minutes(0, 0, 0, 0, f) : f \in 0 .. Res - 1}
    \cup {Minutes(w, d, h, m, f) : w \in 0 .. MaxWeeks, d \in 0 .. 6, h \in Samples(24),
                                   m \in Samples(60), f \in {0, Res \div 2, Res - 1}}

UnitLabels == {<<"h", "m", "s">>, <<"hr", "min", "sec">>}

(***************************************************************************)
(* Characters and decimal digits.  A string that is read character by      *)
(* character is a sequence of one-character strings.                       *)
(***************************************************************************)
DigitChars == <<"0", "1", "2", "3", "4", "5", "6", "7", "8", "9">>

IsDigit(c) == \E d \in 1 .. 10 : DigitChars[d] = c

DigitOf(c) == (CHOOSE d \in 1 .. 10 : DigitChars[d] = c) - 1

(***************************************************************************)
(* convertApiValueToGWEI(val) = (parseInt(val, 10) / 10).toString()        *)
(***************************************************************************)
RECURSIVE ParseDigits(_, _, _)
ParseDigits(str, i, acc) ==
    IF i > Len(str) \/ ~IsDigit(str[i]) THEN acc
    ELSE ParseDigits(str, i + 1, acc * 10 + DigitOf(str[i]))

RECURSIVE ParseDigitsPastPoint(_, _, _)
ParseDigitsPastPoint(str, i, acc) ==
    IF i > Len(str) THEN acc
    ELSE IF ~IsDigit(str[i]) THEN ParseDigitsPastPoint(str, i + 1, acc)
    ELSE ParseDigitsPastPoint(str, i + 1, acc * 10 + DigitOf(str[i]))

ParseInt_PastPoint(str) ==
    IF str = << >> \/ ~IsDigit(str[1]) THEN [nan |-> TRUE, n |-> 0]
    ELSE [nan |-> FALSE, n |-> ParseDigitsPastPoint(str, 1, 0)]

\* parseInt(str, 10): the value of the longest prefix of digits, NaN when
\* the string does not start with a digit.
ParseInt(str) ==
    IF str = << >> \/ ~IsDigit(str[1]) THEN [nan |-> TRUE, n |-> 0]
    ELSE [nan |-> FALSE, n |-> ParseDigits(str, 1, 0)]

\* (x / 10).toString() for the integer or NaN x
TenthToString(x) ==
    IF x.nan THEN "NaN"
    ELSE IF x.n % 10 = 0 THEN ToString(x.n \div 10)
    ELSE ToString(x.n \div 10) \o "." \o ToString(x.n % 10)

ConvertApiValueToGWEI(v) == TenthToString(ParseInt(v))

ApiChars == {"0", "1", "2", "5", "9", "."}

ApiValues == UNION {[1 .. n -> ApiChars] : n \in 0 .. MaxLen}

(***************************************************************************)
(* Integers beyond a machine word are sequences of decimal digits, most    *)
(* significant first, without leading zeros (zero is <<0>>).               *)
(***************************************************************************)
RECURSIVE DigitsOf(_)
DigitsOf(n) == IF n < 10 THEN <<n>> ELSE Append(DigitsOf(n \div 10), n % 10)

Zeros(k) == [i \in 1 .. k |-> 0]

Reverse(ds) == [i \in 1 .. Len(ds) |-> ds[Len(ds) + 1 - i]]

RECURSIVE StripZeros(_)
StripZeros(ds) ==
    IF ds = << >> THEN <<0>>
    ELSE IF Len(ds) > 1 /\ ds[1] = 0 THEN StripZeros(Tail(ds)) ELSE ds

\* Carries of the coefficients co (least significant first) from place i on.
RECURSIVE Propagate(_, _, _)
Propagate(co, i, carry) ==
    IF i > Len(co)
    THEN IF carry <= 0 THEN << >> ELSE <<carry % 10>> \o Propagate(co, i, carry \div 10)
    ELSE <<(co[i] + carry) % 10>> \o Propagate(co, i + 1, (co[i] + carry) \div 10)

\* The number whose digit places hold the (possibly out-of-range) values co.
Normalize(co) == StripZeros(Reverse(Propagate(Reverse(co), 1, 0)))

RECURSIVE ConvAt(_, _, _, _)
ConvAt(a, b, i, j) ==
    IF j > Len(a) THEN 0
    ELSE (IF i - j + 1 \in 1 .. Len(b) THEN a[j] * b[i - j + 1] ELSE 0) + ConvAt(a, b, i, j + 1)

BigMul(a, b) == Normalize([i \in 1 .. Len(a) + Len(b) - 1 |-> ConvAt(a, b, i, 1)])

RECURSIVE LexLess(_, _, _)
LexLess(a, b, i) ==
    IF i > Len(a) THEN FALSE
    ELSE IF a[i] # b[i] THEN a[i] < b[i] ELSE LexLess(a, b, i + 1)

BigLess(a, b) == Len(a) < Len(b) \/ (Len(a) = Len(b) /\ LexLess(a, b, 1))

(***************************************************************************)
(* Numbers of the language.  estimate and gasLimit are Numbers (doubles)   *)
(* holding non-negative integers, written by their decimal digits.         *)
(***************************************************************************)
\* x * c for a Number x that holds an integer of at most 15 significant
\* digits and a constant c: the double nearest to the exact product.  A
\* double is written here by the decimal digits of the exact product: these
\* are the digits Number.prototype.toString prints for it (the shortest
\* that read back as the same double), since decimals of at most 15
\* significant digits map to distinct doubles.
NumberTimes(x, c) == BigMul(x, DigitsOf(c))

SignificantLen(x) ==
    IF x = <<0>> THEN 1 ELSE CHOOSE k \in 1 .. Len(x) : x[k] # 0 /\ \A j \in k + 1 .. Len(x) : x[j] = 0

\* Number.prototype.toString of an integer-valued x: the digits when
\* x < 10^21, and d.ddde+n otherwise.
NumberToString(x) ==
    IF Len(x) <= 21 THEN [i \in 1 .. Len(x) |-> DigitChars[x[i] + 1]]
    ELSE LET k == SignificantLen(x)
             e == DigitsOf(Len(x) - 1)
         IN <<DigitChars[x[1] + 1]>>
            \o (IF k > 1 THEN <<".">> \o [i \in 1 .. k - 1 |-> DigitChars[x[i + 1] + 1]] ELSE << >>)
            \o <<"e", "+">>
            \o [i \in 1 .. Len(e) |-> DigitChars[e[i] + 1]]

(***************************************************************************)
(* BN of ethereumjs-util (bn.js).  A BN expression completes with          *)
(* [ok |-> TRUE, val |-> the integer] or throws: [ok |-> FALSE].           *)
(***************************************************************************)
Thrown == [ok |-> FALSE, val |-> << >>]

CharCode(c) ==
    IF IsDigit(c) THEN 48 + DigitOf(c)
    ELSE IF c = "+" THEN 43
    ELSE IF c = "." THEN 46
    ELSE 101    \* "e"

\* parseBase of bn.js: the value a character adds at its place.
CharWord(c) ==
    LET w == CharCode(c) - 48
    IN IF w >= 49 THEN w - 49 + 10
       ELSE IF w >= 17 THEN w - 17 + 10
       ELSE w

\* new BN(str, 10).  bn.js 5 asserts that every character is a digit of the
\* base; bn.js 4 adds CharWord of whatever character it finds.  ethereumjs-util
\* accepts either, so the installed one (strict or not) is not fixed by the code.
BNFromString(str, strict) ==
    IF \A i \in 1 .. Len(str) : IsDigit(str[i])
    THEN [ok |-> TRUE, val |-> Normalize([i \in 1 .. Len(str) |-> DigitOf(str[i])])]
    ELSE IF strict THEN Thrown
    ELSE [ok |-> TRUE, val |-> Normalize([i \in 1 .. Len(str) |-> CharWord(str[i])])]

\* 0x20000000000000 = 2^53
MaxSafe == <<9, 0, 0, 7, 1, 9, 9, 2, 5, 4, 7, 4, 0, 9, 9, 2>>

\* new BN(number, 10): _initNumber splits a number below 2^53 into 26-bit
\* words and asserts number < 0x20000000000000.
BNFromNumber(x) == IF BigLess(x, MaxSafe) THEN [ok |-> TRUE, val |-> x] ELSE Thrown

BNMul(a, b) == BigMul(a, b)

(***************************************************************************)
(* apiEstimateModifiedToWEI and getWeiGasFee                               *)
(***************************************************************************)
GWEIRate == 1000000000

DefaultGasLimit == 21000

ApiEstimateModifiedToWEI(e, strict) ==
    BNFromString(NumberToString(NumberTimes(e, GWEIRate)), strict)

\* gasLimitArg is << >> when the caller omits the argument.
GetWeiGasFee(e, gasLimitArg, strict) ==
    LET limit == IF gasLimitArg = << >> THEN DigitsOf(DefaultGasLimit) ELSE gasLimitArg
        apiEstimate == ApiEstimateModifiedToWEI(e, strict)
        bnLimit == BNFromNumber(limit)
    IN IF ~apiEstimate.ok \/ ~bnLimit.ok THEN Thrown
       ELSE [ok |-> TRUE, val |-> BNMul(apiEstimate.val, bnLimit.val)]

Estimates ==
    {StripZeros(DigitsOf(m) \o Zeros(p)) : m \in 0 .. MaxMant, p \in 0 .. MaxPow10}

\* 2^53 - 1, 2^53 and 2^63 are Numbers: each is a double.
GasLimits ==
    {<< >>, <<0>>, <<1>>, DigitsOf(DefaultGasLimit),
     <<9, 0, 0, 7, 1, 9, 9, 2, 5, 4, 7, 4, 0, 9, 9, 1>>,
     MaxSafe,
     <<9, 2, 2, 3, 3, 7, 2, 0, 3, 6, 8, 5, 4, 7, 7, 5, 8, 0, 8>>}

(***************************************************************************)
(* fetchBasicGasEstimates: fetch(...).then(r => r.json()).then(handler),   *)
(* awaited and returned.  Each invocation is one promise chain.            *)
(***************************************************************************)
Invocations == 1 .. NumCalls

\* Fields of the gas station's JSON object, and fields it may hold besides.
ApiFields ==
    {"average", "avgWait", "block_time", "blockNum", "fast", "fastest",
     "fastestWait", "fastWait", "safeLow", "safeLowWait", "speed"}

OtherFields == {"averageWait", "blockTime", "gasPriceRange"}

\* A JSON object is a function from its field names to its values; the value
\* of field f in a payload is written "#f".
NoFields == [f \in {} |-> ""]

Payloads ==
    {[f \in (ApiFields \cup OtherFields) \ drop |-> "#" \o f] :
        drop \in {{}, OtherFields, {"avgWait"}, {"block_time"}, {"speed"},
                  {"averageWait"}, {"blockTime"}}}

\* What the network returns: a body that is a JSON object, the JSON text
\* null, or a body that is not JSON.
Responses ==
    {[kind |-> "object", payload |-> p] : p \in Payloads}
    \cup {[kind |-> "null", payload |-> NoFields], [kind |-> "malformed", payload |-> NoFields]}

NoResponse == [kind |-> "none", payload |-> NoFields]

TransportFailure == [kind |-> "failed", payload |-> NoFields]

Pending == [state |-> "pending", error |-> "", value |-> NoFields]

Rejected(e) == [state |-> "rejected", error |-> e, value |-> NoFields]

Fulfilled(v) == [state |-> "fulfilled", error |-> "", value |-> v]

\* A destructured property: the payload's value, undefined when absent.
Property(p, f) == IF f \in DOMAIN p THEN p[f] ELSE "undefined"

BasicEstimates_NoRename(p) ==
    [average |-> Property(p, "average"),
     averageWait |-> Property(p, "averageWait"),
     blockTime |-> Property(p, "blockTime"),
     blockNum |-> Property(p, "blockNum"),
     fast |-> Property(p, "fast"),
     fastest |-> Property(p, "fastest"),
     fastestWait |-> Property(p, "fastestWait"),
     fastWait |-> Property(p, "fastWait"),
     safeLow |-> Property(p, "safeLow"),
     safeLowWait |-> Property(p, "safeLowWait"),
     speed |-> Property(p, "speed")]

BasicEstimates(p) ==
    [average |-> Property(p, "average"),
     averageWait |-> Property(p, "avgWait"),
     blockTime |-> Property(p, "block_time"),
     blockNum |-> Property(p, "blockNum"),
     fast |-> Property(p, "fast"),
     fastest |-> Property(p, "fastest"),
     fastestWait |-> Property(p, "fastestWait"),
     fastWait |-> Property(p, "fastWait"),
     safeLow |-> Property(p, "safeLow"),
     safeLowWait |-> Property(p, "safeLowWait"),
     speed |-> Property(p, "speed")]

\* The call: fetch issues the GET request.
Invoke(i) ==
    /\ call = "fetchBasicGasEstimates" /\ pc[i] = "idle"
    /\ requests' = [requests EXCEPT ![i] = @ + 1]
    /\ pc' = [pc EXCEPT ![i] = "fetch"]
    /\ UNCHANGED <<call, done, response, result, console, feeVars, waitVars, gweiVars>>

FetchFails_Retry(i) ==
    /\ call = "fetchBasicGasEstimates" /\ pc[i] = "fetch" /\ requests[i] < 2
    /\ requests' = [requests EXCEPT ![i] = @ + 1]
    /\ UNCHANGED <<call, done, pc, response, result, console, feeVars, waitVars, gweiVars>>

\* The transport fails: fetch rejects, no handler of the chain runs, and the
\* awaited rejection is the invocation's.
FetchFails(i) ==
    /\ call = "fetchBasicGasEstimates" /\ pc[i] = "fetch"
    /\ response' = [response EXCEPT ![i] = TransportFailure]
    /\ result' = [result EXCEPT ![i] = Rejected("NetworkError")]
    /\ pc' = [pc EXCEPT ![i] = "rejected"]
    /\ UNCHANGED <<call, done, requests, console, feeVars, waitVars, gweiVars>>

\* A response arrives: fetch fulfils and r => r.json() is next.
FetchResponds(i) ==
    /\ call = "fetchBasicGasEstimates" /\ pc[i] = "fetch"
    /\ \E r \in Responses : response' = [response EXCEPT ![i] = r]
    /\ pc' = [pc EXCEPT ![i] = "json"]
    /\ UNCHANGED <<call, done, result, requests, console, feeVars, waitVars, gweiVars>>

\* r.json(): rejects when the body is not JSON, else the handler is next.
Json(i) ==
    /\ call = "fetchBasicGasEstimates" /\ pc[i] = "json"
    /\ IF response[i].kind = "malformed"
       THEN /\ result' = [result EXCEPT ![i] = Rejected("ParseError")]
            /\ pc' = [pc EXCEPT ![i] = "rejected"]
       ELSE /\ pc' = [pc EXCEPT ![i] = "then"]
            /\ UNCHANGED result
    /\ UNCHANGED <<call, done, response, requests, console, feeVars, waitVars, gweiVars>>

\* The handler: destructures the parsed value (a TypeError for null), builds
\* basicEstimates, logs it and returns it.
Handler(i) ==
    /\ call = "fetchBasicGasEstimates" /\ pc[i] = "then"
    /\ IF response[i].kind = "null"
       THEN /\ result' = [result EXCEPT ![i] = Rejected("TypeError")]
            /\ pc' = [pc EXCEPT ![i] = "rejected"]
            /\ UNCHANGED console
       ELSE LET basicEstimates == BasicEstimates(response[i].payload)
            IN /\ console' = Append(console, [label |-> "basicEstimates", value |-> basicEstimates])
               /\ result' = [result EXCEPT ![i] = Fulfilled(basicEstimates)]
               /\ pc' = [pc EXCEPT ![i] = "resolved"]
    /\ UNCHANGED <<call, done, response, requests, feeVars, waitVars, gweiVars>>

(***************************************************************************)
(* Values the variables of a function hold while another one is applied.   *)
(***************************************************************************)
IdleFee ==
    /\ estimate = <<0>> /\ gasLimit = << >> /\ bnStrict = FALSE
    /\ gasFee = Thrown

IdleWait == min = 0 /\ units = <<"h", "m", "s">> /\ parsed = ""

IdleGwei == val = << >> /\ gwei = ""

IdleFetch ==
    /\ pc = << >> /\ response = << >> /\ result = << >> /\ requests = << >>
    /\ console = << >>

InitWait ==
    /\ call = "parseWaitTime" /\ done = FALSE
    /\ min \in WaitInputs /\ units \in UnitLabels /\ parsed = ""
    /\ IdleFee /\ IdleGwei /\ IdleFetch

CallParseWaitTime ==
    /\ call = "parseWaitTime" /\ ~done
    /\ parsed' = ParseWaitTime(min, units[1], units[2], units[3])
    /\ done' = TRUE
    /\ UNCHANGED <<call, min, units, feeVars, gweiVars, fetchVars>>

InitGwei ==
    /\ call = "convertApiValueToGWEI" /\ done = FALSE
    /\ val \in ApiValues /\ gwei = ""
    /\ IdleFee /\ IdleWait /\ IdleFetch

CallConvertApiValueToGWEI ==
    /\ call = "convertApiValueToGWEI" /\ ~done
    /\ gwei' = ConvertApiValueToGWEI(val)
    /\ done' = TRUE
    /\ UNCHANGED <<call, val, feeVars, waitVars, fetchVars>>

InitFee ==
    /\ call = "getWeiGasFee" /\ done = FALSE
    /\ estimate \in Estimates /\ gasLimit \in GasLimits /\ bnStrict \in BOOLEAN
    /\ gasFee = Thrown
    /\ IdleWait /\ IdleGwei /\ IdleFetch

CallGetWeiGasFee ==
    /\ call = "getWeiGasFee" /\ ~done
    /\ gasFee' = GetWeiGasFee(estimate, gasLimit, bnStrict)
    /\ done' = TRUE
    /\ UNCHANGED <<call, estimate, gasLimit, bnStrict, waitVars, gweiVars, fetchVars>>

InitFetch ==
    /\ call = "fetchBasicGasEstimates" /\ done = FALSE
    /\ pc = [i \in Invocations |-> "idle"]
    /\ response = [i \in Invocations |-> NoResponse]
    /\ result = [i \in Invocations |-> Pending]
    /\ requests = [i \in Invocations |-> 0]
    /\ console = << >>
    /\ IdleFee /\ IdleWait /\ IdleGwei

Init == InitFee \/ InitWait \/ InitGwei \/ InitFetch

Next ==
    \/ CallGetWeiGasFee
    \/ CallParseWaitTime
    \/ CallConvertApiValueToGWEI
    \/ \E i \in Invocations :
        \/ Invoke(i)
        \/ FetchFails(i)
        \/ FetchResponds(i)
        \/ Json(i)
        \/ Handler(i)

Spec == Init /\ [][Next]_vars

(***************************************************************************)
(* The wait time of a state, read independently of parseWaitTime: the      *)
(* digits of the mixed-radix decomposition of min.                         *)
(***************************************************************************)
WaitReturned == call = "parseWaitTime" /\ done

WeeksOf(k) == k \div (10080 * Res)
DaysOf(k) == (k \div (1440 * Res)) % 7
HoursOf(k) == (k \div (60 * Res)) % 24
MinutesOf(k) == (k \div Res) % 60
\* round(frac(min) * 100): the n with n - 1/2 <= frac * 100 < n + 1/2
HundredthsOf(k) ==
    CHOOSE n \in 0 .. 100 :
        /\ 2 * n * Res - Res <= 200 * (k % Res)
        /\ 200 * (k % Res) < 2 * n * Res + Res
\* ceil(n * 3 / 5): the c with c - 1 < 3n/5 <= c
SecondsOf(k) ==
    LET n == HundredthsOf(k)
    IN CHOOSE c \in 0 .. 60 : 5 * (c - 1) < 3 * n /\ 3 * n <= 5 * c

Seg(n, label) == ToString(n) \o label
Followed(first, n, label) == first \o (IF n # 0 THEN " " \o Seg(n, label) ELSE "")

C4_WeekThenDay ==
    /\ (WaitReturned /\ WeeksOf(min) > 0) =>
        parsed = Followed(Seg(WeeksOf(min), "week"), DaysOf(min), "day")
    /\ (WaitReturned /\ min = 10081 * Res) => parsed = "1week"

C4_Witness ==
    /\ WaitReturned /\ WeeksOf(min) = 1 /\ DaysOf(min) = 3 /\ HoursOf(min) = 23
    /\ parsed = "1week 3day"

\* C5: for 0 <= min < 1, with seconds = round(min*100)*3/5, parseWaitTime
\* returns ceil(seconds) followed by strSec when seconds > 1 and the empty
\* string otherwise; no input of one minute or more yields the empty string;
\* parseWaitTime(0) = '' and parseWaitTime(0.5,'h','m','s') = '30s'.
C5_SecondsOrEmpty ==
    WaitReturned =>
        /\ min < Res =>
            parsed = IF 3 * HundredthsOf(min) > 5
                     THEN Seg(SecondsOf(min), units[3]) ELSE ""
        /\ parsed = "" => min < Res /\ 3 * HundredthsOf(min) <= 5
        /\ min = 0 => parsed = ""
        /\ (2 * min = Res /\ units[3] = "s") => parsed = "30s"

C5_Witness ==
    /\ WaitReturned /\ min < Res /\ HundredthsOf(min) = 2
    /\ parsed = Seg(2, units[3])

\* C9: every number parseWaitTime renders is the digit of the mixed-radix
\* decomposition of min: weeks = floor(min/10080), days = floor(min/1440) mod 7
\* in 1..6, hours = floor(min/60) mod 24 in 1..23, minutes = floor(min) mod 60
\* in 1..59, seconds = ceil(round(frac(min)*100)*3/5) in 2..60.
RenderableDigits(k, u) ==
    ( IF WeeksOf(k) >= 1 THEN {Seg(WeeksOf(k), "week")} ELSE {} )
    \cup ( IF DaysOf(k) \in 1 .. 6 THEN {Seg(DaysOf(k), "day")} ELSE {} )
    \cup ( IF HoursOf(k) \in 1 .. 23 THEN {Seg(HoursOf(k), u[1])} ELSE {} )
    \cup ( IF MinutesOf(k) \in 1 .. 59 THEN {Seg(MinutesOf(k), u[2])} ELSE {} )
    \cup ( IF SecondsOf(k) \in 2 .. 60 THEN {Seg(SecondsOf(k), u[3])} ELSE {} )

C9_DigitsAreCorrect ==
    WaitReturned =>
        LET digits == RenderableDigits(min, units)
        IN \/ parsed = ""
           \/ parsed \in digits
           \/ \E a, b \in digits : parsed = a \o " " \o b

C9_Witness ==
    /\ WaitReturned /\ WeeksOf(min) = 2 /\ DaysOf(min) = 6 /\ HoursOf(min) = 1
    /\ parsed = "2week 6day"

\* C10: the returned string holds at most two segments; two segments are of
\* adjacent units in descending order (week day, day hour, hour minute); a
\* second segment stands alone; no minute segment follows a week or a day.
WaitForms ==
    [u \in UnitLabels |->
        {""}
        \cup {Seg(n, "week") : n \in 1 .. MaxWeeks}
        \cup {Seg(n, "day") : n \in 1 .. 6}
        \cup {Seg(n, u[1]) : n \in 1 .. 23}
        \cup {Seg(n, u[2]) : n \in 1 .. 59}
        \cup {Seg(n, u[3]) : n \in 1 .. 60}
        \cup {Seg(a, "week") \o " " \o Seg(b, "day") : a \in 1 .. MaxWeeks, b \in 1 .. 6}
        \cup {Seg(a, "day") \o " " \o Seg(b, u[1]) : a \in 1 .. 6, b \in 1 .. 23}
        \cup {Seg(a, u[1]) \o " " \o Seg(b, u[2]) : a \in 1 .. 23, b \in 1 .. 59}]

C10_AtMostTwoAdjacent == WaitReturned => parsed \in WaitForms[units]

C10_Witness ==
    /\ WaitReturned /\ DaysOf(min) = 0 /\ WeeksOf(min) = 0 /\ MinutesOf(min) = 59
    /\ parsed = Seg(23, units[1]) \o " " \o Seg(59, units[2])

(***************************************************************************)
(* convertApiValueToGWEI                                                   *)
(***************************************************************************)
GweiReturned == call = "convertApiValueToGWEI" /\ done

\* The digits before the first '.' of a string, and their value.
IntegerPart(str) ==
    IF \E i \in 1 .. Len(str) : str[i] = "."
    THEN SubSeq(str, 1, (CHOOSE i \in 1 .. Len(str) :
                            str[i] = "." /\ \A j \in 1 .. i - 1 : str[j] # ".") - 1)
    ELSE str

RECURSIVE ValueOf(_)
ValueOf(ds) ==
    IF ds = << >> THEN 0 ELSE 10 * ValueOf(SubSeq(ds, 1, Len(ds) - 1)) + DigitOf(ds[Len(ds)])

\* C6: convertApiValueToGWEI('n.f') = convertApiValueToGWEI('n') = n/10 as a
\* decimal string, for every non-negative integer n and fractional suffix f:
\* only the integer part of val is used ('150' gives '15', '25' gives '2.5').
C6_IntegerPartOverTen ==
    GweiReturned =>
        /\ IntegerPart(val) # << >> =>
            LET n == ValueOf(IntegerPart(val))
            IN gwei = IF n % 10 = 0 THEN ToString(n \div 10)
                      ELSE ToString(n \div 10) \o "." \o ToString(n % 10)
        /\ val = <<"1", "5", "0">> => gwei = "15"
        /\ val = <<"2", "5">> => gwei = "2.5"
        /\ val = <<"2", ".", "5">> => gwei = "0.2"

C6_Witness == GweiReturned /\ val = <<"2", ".", "5">> /\ gwei = "0.2"

(***************************************************************************)
(* getWeiGasFee                                                            *)
(***************************************************************************)
FeeReturned == call = "getWeiGasFee" /\ done

\* C1: for every non-negative integer estimate e, getWeiGasFee(e) with the
\* default gas limit returns exactly e * 1,000,000,000 * 21000.
C1_ExactForEveryEstimate ==
    (FeeReturned /\ gasLimit = << >>) =>
        /\ gasFee.ok
        /\ gasFee.val = BigMul(BigMul(estimate, DigitsOf(1000000000)), DigitsOf(21000))

\* C2: for every estimate e and every gas limit 0 <= g <= 2^63 for which
\* apiEstimateModifiedToWEI(e) has a value, getWeiGasFee(e, g) returns exactly
\* apiEstimateModifiedToWEI(e) * g.
C2_ExactForEveryGasLimit ==
    (FeeReturned /\ gasLimit # << >> /\ ApiEstimateModifiedToWEI(estimate, bnStrict).ok) =>
        /\ gasFee.ok
        /\ gasFee.val = BigMul(ApiEstimateModifiedToWEI(estimate, bnStrict).val, gasLimit)

(***************************************************************************)
(* fetchBasicGasEstimates                                                  *)
(***************************************************************************)
Fetching == call = "fetchBasicGasEstimates"

UnchangedFields ==
    {"average", "blockNum", "fast", "fastest", "fastestWait", "fastWait",
     "safeLow", "safeLowWait", "speed"}

FieldOr(p, f) == IF f \in DOMAIN p THEN p[f] ELSE "undefined"

\* C7: after a successful fetch of a JSON object the invocation resolves to a
\* record of exactly the eleven fields, averageWait = payload.avgWait,
\* blockTime = payload.block_time, every other field the payload's field of the
\* same name; no other payload field is carried over.
C7_RecordIsRemappedPayload ==
    Fetching =>
        \A i \in Invocations :
            pc[i] = "resolved" =>
                LET p == response[i].payload
                    r == result[i].value
                IN /\ response[i].kind = "object"
                   /\ result[i].state = "fulfilled"
                   /\ DOMAIN r = UnchangedFields \cup {"averageWait", "blockTime"}
                   /\ r["averageWait"] = FieldOr(p, "avgWait")
                   /\ r["blockTime"] = FieldOr(p, "block_time")
                   /\ \A f \in UnchangedFields : r[f] = FieldOr(p, f)

C7_Witness ==
    /\ Fetching
    /\ \E i \in Invocations :
        /\ pc[i] = "resolved"
        /\ DOMAIN response[i].payload = ApiFields \cup OtherFields
        /\ result[i].value["averageWait"] = "#avgWait"
        /\ result[i].value["blockTime"] = "#block_time"

\* What an invocation settles to, given the answer it alone received.
OutcomeOf(r) ==
    IF r.kind = "failed" THEN "NetworkError"
    ELSE IF r.kind = "malformed" THEN "ParseError"
    ELSE IF r.kind = "null" THEN "TypeError"
    ELSE ""

\* C8: every invocation issues exactly one GET request; a transport or parse
\* failure rejects the invocation with that failure, with no retry, no
\* fallback value and no log; the log is written once per successful fetch
\* and parse; k invocations issue k requests and each invocation's outcome
\* depends on its own response only.
C8_OneRequestNoRecovery ==
    Fetching =>
        /\ \A i \in Invocations :
            /\ requests[i] = IF pc[i] = "idle" THEN 0 ELSE 1
            /\ response[i].kind = "failed" =>
                pc[i] = "rejected" /\ result[i] = Rejected("NetworkError")
            /\ (response[i].kind = "malformed" /\ pc[i] # "json") =>
                pc[i] = "rejected" /\ result[i] = Rejected("ParseError")
            /\ pc[i] = "rejected" =>
                /\ result[i].state = "rejected"
                /\ result[i].error = OutcomeOf(response[i])
                /\ result[i].error # ""
            /\ pc[i] = "resolved" =>
                /\ OutcomeOf(response[i]) = ""
                /\ \E n \in 1 .. Len(console) : console[n].value = result[i].value
            /\ pc[i] \notin {"rejected", "resolved"} => result[i] = Pending
        /\ Len(console) = Cardinality({i \in Invocations : pc[i] = "resolved"})

C8_Witness ==
    /\ Fetching
    /\ \E i, j \in Invocations :
        /\ pc[i] = "rejected" /\ result[i].error = "NetworkError"
        /\ pc[j] = "rejected" /\ result[j].error = "ParseError"
        /\ requests[i] = 1 /\ requests[j] = 1
        /\ console = << >>

====
